---- MODULE Spec2Model ----
(***************************************************************************)
(* Model of the request-admission layer of the outreach backend: the       *)
(* sliding-window rate limiter checkRateLimit (functions/_utils.js) over a *)
(* key-value store with per-key expiry.                                    *)
(*                                                                         *)
(* Time is in whole seconds (Math.floor(Date.now() / 1000)).  One call of  *)
(* checkRateLimit is one action: its store read, its decision and its      *)
(* store write happen in one step.                                         *)
(*                                                                         *)
(* The module also models the verification gate verifyTurnstileToken, the  *)
(* request handlers in front of both (the four functions under             *)
(* functions/api and the Express routes of server.js), and the page's      *)
(* single-flight lock (script.js: getTurnstileToken, completeRequest).     *)
(***************************************************************************)
EXTENDS Integers, Sequences, FiniteSets, TLC

(***************************************************************************)
(* Program constants.                                                      *)
(***************************************************************************)
RATE_LIMIT_MAX_REQUESTS == 20
RATE_LIMIT_WINDOW_SECONDS == 60

\* expirationTtl of every put: the window plus ten seconds.
\* Faulty variant: the entry expires before the window has passed.
MutExpirationTtl == RATE_LIMIT_WINDOW_SECONDS - 10

ExpirationTtl == RATE_LIMIT_WINDOW_SECONDS + 10

(***************************************************************************)
(* Bounds of the workload.                                                 *)
(***************************************************************************)
\* Calls of checkRateLimit in one run.
MaxCalls == 24
\* Events of one run that leave the steady pace of one fault-free request
\* of the steady client per second: a pause, a second request in the same
\* second, a request of another client, a store fault, a foreign write.
MaxIrregular == 1
\* The longest time, in seconds, a slow check stays in flight.
MaxLag == 2

\* Lengths of a pause of the clients, in seconds.
PauseSteps == {40, 41, 59, 60}

\* The client that sends one request per second.
SteadyIP == "1.2.3.4"
OtherIP == "5.6.7.8"

(***************************************************************************)
(* Requests: the two headers checkRateLimit reads.  cf is the value of     *)
(* CF-Connecting-IP ("" when the header is absent), xff the parts of       *)
(* X-Forwarded-For between its commas (<<>> when the header is absent).    *)
(***************************************************************************)
Requests ==
  { [cf |-> SteadyIP, xff |-> <<>>],
    [cf |-> "", xff |-> <<SteadyIP, OtherIP>>],
    [cf |-> OtherIP, xff |-> <<SteadyIP>>],
    [cf |-> "", xff |-> <<"">>],
    [cf |-> "", xff |-> <<>>] }

Identities == {SteadyIP, OtherIP, "unknown"}

(***************************************************************************)
(* JSON values of the store, as get(key, {type: 'json'}) sees them.        *)
(*   null      no entry (or an expired one)                                *)
(*   invalid   bytes that are no JSON: the get throws                      *)
(*   other     JSON with no truthy `timestamps` member                     *)
(*   nonArray  {timestamps: v}, v truthy and no array (a number, a string, *)
(*             an object): v.filter is not a function                      *)
(*   array     {timestamps: [...]}: items holds the numeric value of each  *)
(*             element, and the first `strings` elements are numeric       *)
(*             strings ("17") instead of numbers                           *)
(***************************************************************************)
Null == [kind |-> "null"]
Invalid == [kind |-> "invalid"]
OtherJson == [kind |-> "other"]
NonArray == [kind |-> "nonArray"]
Array(items, strings) == [kind |-> "array", items |-> items, strings |-> strings]

\* What the log keeps of a value read: its kind, "strings" for an array
\* that holds strings.
ReadKind(data) ==
  IF data.kind = "array" /\ data.strings > 0 THEN "strings" ELSE data.kind

Max(a, b) == IF a >= b THEN a ELSE b

VARIABLES
  now,          \* the clock, in seconds
  kv,           \* the store: key -> [json, expiresAt], present keys only
  kvConfigured, \* whether env.RATE_LIMIT_KV is set
  log,          \* per client IP, every call of checkRateLimit so far
  irregular     \* irregular events so far

\* The page's script (script.js).
VARIABLES
  currentTurnstileToken, \* the cached token, NoToken for null
  currentRequestId,      \* the holder of the lock, NoRequest for null
  buttonsEnabled,        \* what setButtonsEnabled last set
  callers,               \* every run of a handler that called getTurnstileToken
  tokensIssued,          \* tokens the widget has delivered so far
  staleCalls             \* the calls of completeRequest by finished callers:
                         \* the id passed and the holder at that moment

\* The function handlers (functions/api) and the Express routes (server.js).
VARIABLES
  turnstileSecret, \* env.TURNSTILE_SECRET_KEY
  lastResponse,    \* the last request handled: what was called, what was answered
  onlyGateFailures \* every POST to a function handler so far was answered 429, 403 or 400

limiterVars == <<now, kv, kvConfigured, log, irregular>>

serverVars == <<turnstileSecret, lastResponse, onlyGateFailures>>

\* Checks of the limiter whose steps interleave with other checks.
VARIABLES
  flight,   \* the slow checks in flight: how far each is, its `now`, what it read
  slowDone  \* the slow checks that have returned: their `now`, their decision

raceVars == <<flight, slowDone>>

clientVars ==
  <<currentTurnstileToken, currentRequestId, buttonsEnabled, callers,
    tokensIssued, staleCalls>>

vars == <<limiterVars, clientVars, serverVars, raceVars>>

(***************************************************************************)
(* checkRateLimit, line by line.                                           *)
(***************************************************************************)

\* const clientIP = CF-Connecting-IP || X-Forwarded-For?.split(',')[0]?.trim() || 'unknown'
ClientIP(request) ==
  IF request.cf # "" THEN request.cf
  ELSE IF request.xff # <<>> /\ Head(request.xff) # "" THEN Head(request.xff)
  ELSE "unknown"

\* Faulty variant: the key leaves the client out.
MutKvKey(clientIP) == "ratelimit:" \o "unknown"

\* const kvKey = `ratelimit:${clientIP}`
kvKey(clientIP) == "ratelimit:" \o clientIP

\* env.RATE_LIMIT_KV.get(kvKey, {type: 'json'}) at time t: an entry is gone
\* once its expiration time is reached.
KvGet(store, key, t) ==
  IF key \in DOMAIN store /\ t < store[key].expiresAt
  THEN store[key].json
  ELSE Null

\* env.RATE_LIMIT_KV.put(kvKey, value, {expirationTtl: ttl}) at time t.
KvPut(store, key, json, ttl, t) ==
  [k \in DOMAIN store \cup {key} |->
     IF k = key THEN [json |-> json, expiresAt |-> t + ttl] ELSE store[k]]

\* let timestamps = existingData?.timestamps || []   (for a value that has
\* a filter method)
ExistingTimestamps(data) ==
  IF data.kind = "array" THEN Array(data.items, data.strings) ELSE Array(<<>>, 0)

\* Faulty variant: a timestamp exactly W seconds old still counts.
MutInWindow(ts, windowStart) == ts >= windowStart

\* ts > windowStart (a numeric string compares by its numeric value)
InWindow(ts, windowStart) == ts > windowStart

\* Faulty variant, a fixed window: everything is dropped once the oldest entry has left it.
MutFilterWindow(timestamps, windowStart) ==
  IF timestamps.items # <<>> /\ ~InWindow(timestamps.items[1], windowStart)
  THEN Array(<<>>, 0)
  ELSE timestamps

\* timestamps = timestamps.filter(ts => ts > windowStart)
FilterWindow(timestamps, windowStart) ==
  Array(SelectSeq(timestamps.items, LAMBDA ts : InWindow(ts, windowStart)),
        Cardinality({i \in 1..timestamps.strings :
                       InWindow(timestamps.items[i], windowStart)}))

\* Faulty variant: the limit is compared with > instead of >=.
MutRateLimitExceeded(timestamps) == Len(timestamps.items) > RATE_LIMIT_MAX_REQUESTS

\* timestamps.length >= RATE_LIMIT_MAX_REQUESTS
RateLimitExceeded(timestamps) == Len(timestamps.items) >= RATE_LIMIT_MAX_REQUESTS

\* Faulty variant: retryAfter is counted from the newest timestamp.
MutRetryAfter(timestamps, t) ==
  Max(1, timestamps.items[Len(timestamps.items)] + RATE_LIMIT_WINDOW_SECONDS - t)

\* Math.max(1, timestamps[0] + RATE_LIMIT_WINDOW_SECONDS - now).  When
\* timestamps[0] is a string "v", + appends "60" to it and - converts the
\* result to the number 100 v + 60.
RetryAfter(timestamps, t) ==
  LET oldestTimestamp == timestamps.items[1]
      sum == IF timestamps.strings > 0
             THEN oldestTimestamp * 100 + RATE_LIMIT_WINDOW_SECONDS
             ELSE oldestTimestamp + RATE_LIMIT_WINDOW_SECONDS
  IN  Max(1, sum - t)

RejectDecision(retryAfter) ==
  [allowed |-> FALSE,
   error |-> "Rate limit exceeded. Please try again later.",
   retryAfter |-> retryAfter,
   remaining |-> 0]

\* Faulty variant: remaining is taken before the push.
MutAdmitDecision(timestamps, t) ==
  [allowed |-> TRUE,
   remaining |-> RATE_LIMIT_MAX_REQUESTS - (Len(timestamps.items) - 1),
   resetAt |-> t + RATE_LIMIT_WINDOW_SECONDS]

\* The decision of the admit branch, timestamps being the pushed array.
AdmitDecision(timestamps, t) ==
  [allowed |-> TRUE,
   remaining |-> RATE_LIMIT_MAX_REQUESTS - Len(timestamps.items),
   resetAt |-> t + RATE_LIMIT_WINDOW_SECONDS]

\* timestamps.push(now)
Push(timestamps, t) == Array(Append(timestamps.items, t), timestamps.strings)

\* What a run of the function's body gives: it returns `decision` or throws,
\* after the store operations `ops` on its key, the last of which may have
\* stored `put`.
NoPut == [kind |-> "none"]
Returned(decision, ops, put) ==
  [threw |-> FALSE, decision |-> decision, ops |-> ops, put |-> put]
Thrown(ops) ==
  [threw |-> TRUE, decision |-> [allowed |-> FALSE], ops |-> ops, put |-> NoPut]

\* Faulty variant: the rejected attempt is pushed and stored too.
MutRejectBranch(timestamps, t) ==
  Returned(RejectDecision(RetryAfter(timestamps, t)),
           <<"get", "put">>, Push(timestamps, t))

\* The branch of a full window: return without a put.
RejectBranch(timestamps, t) ==
  Returned(RejectDecision(RetryAfter(timestamps, t)), <<"get">>, NoPut)

\* Faulty variant: the admitted attempt is not stored.
MutAdmitBranch(timestamps, t, putThrows) ==
  Returned(AdmitDecision(Push(timestamps, t), t), <<"get">>, NoPut)

\* The branch of a window with room: push, put, return.  A put that throws
\* stores nothing.
AdmitBranch(timestamps, t, putThrows) ==
  LET pushed == Push(timestamps, t) IN
  IF putThrows
  THEN Thrown(<<"get", "put">>)
  ELSE Returned(AdmitDecision(pushed, t), <<"get", "put">>, pushed)

\* The try block: get, filter, then one of the two branches.
TryBlock(data, t, getThrows, putThrows) ==
  IF getThrows \/ data.kind = "invalid" THEN Thrown(<<"get">>)
  ELSE IF data.kind = "nonArray" THEN Thrown(<<"get">>)
  ELSE LET timestamps ==
             FilterWindow(ExistingTimestamps(data), t - RATE_LIMIT_WINDOW_SECONDS)
       IN  IF RateLimitExceeded(timestamps)
           THEN RejectBranch(timestamps, t)
           ELSE AdmitBranch(timestamps, t, putThrows)

\* Faulty variant: the error is thrown on to the caller.
MutCatchBlock(attempt) == attempt

\* catch (error) { return {allowed: true, error: 'Rate limit check failed'} }
CatchBlock(attempt) ==
  IF attempt.threw
  THEN Returned([allowed |-> TRUE, error |-> "Rate limit check failed"],
                attempt.ops, attempt.put)
  ELSE attempt

\* if (!env.RATE_LIMIT_KV) return {allowed: true}
NoKvDecision == Returned([allowed |-> TRUE], <<>>, NoPut)

\* Faulty variant: the guard on env.RATE_LIMIT_KV is missing and the store is
\* used whether it is configured or not.
MutCheckRateLimit(request, configured, store, t, getThrows, putThrows) ==
  LET key == kvKey(ClientIP(request)) IN
  [key |-> key,
   run |-> CatchBlock(TryBlock(KvGet(store, key, t), t, getThrows, putThrows))]

\* checkRateLimit(request, env) at time t over `store`: the key it used ("" when
\* it computed none) and what its run gave.
checkRateLimit(request, configured, store, t, getThrows, putThrows) ==
  IF ~configured THEN [key |-> "", run |-> NoKvDecision]
  ELSE LET key == kvKey(ClientIP(request)) IN
       [key |-> key,
        run |-> CatchBlock(TryBlock(KvGet(store, key, t), t, getThrows, putThrows))]

(***************************************************************************)
(* The page's lock (script.js): getTurnstileToken, its poll, and           *)
(* completeRequest.                                                        *)
(***************************************************************************)
\* Runs of a handler that reach getTurnstileToken in one run of the page.
MaxClicks == 3
\* Tokens the widget delivers in one run of the page.
MaxTokens == 2
\* Calls of completeRequest by a caller that has already finished.
MaxStale == 1

\* let currentTurnstileToken = null; tokens are 1, 2, ...
NoToken == 0
\* let currentRequestId = null; request ids are 1, 2, ...
NoRequest == 0
\* let requestId; (never assigned)
Undefined == -1
\* const maxAttempts = 100
maxAttempts == 100

InProgressError == "Please wait for the current request to complete"
WidgetError == "Turnstile widget not found"
TimeoutError == "Turnstile verification timeout"

\* The three globals the lock is made of.
LockState ==
  [id |-> currentRequestId, token |-> currentTurnstileToken,
   buttons |-> buttonsEnabled]

SetLock(lock) ==
  /\ currentRequestId' = lock.id
  /\ currentTurnstileToken' = lock.token
  /\ buttonsEnabled' = lock.buttons

\* Faulty variant: the check for a request in progress is missing.
MutRequestInProgress(lock) == FALSE

\* if (currentRequestId !== null) throw ...
RequestInProgress(lock) == lock.id # NoRequest

\* Faulty variant: the cached token is not cleared.
MutAcquireKeepsToken(lock, requestId) ==
  [id |-> requestId, token |-> lock.token, buttons |-> FALSE]

\* Faulty variant: the buttons are not disabled.
MutAcquireKeepsButtons(lock, requestId) ==
  [id |-> requestId, token |-> NoToken, buttons |-> lock.buttons]

\* currentRequestId = requestId; setButtonsEnabled(false);
\* currentTurnstileToken = null;
Acquire(lock, requestId) ==
  [id |-> requestId, token |-> NoToken, buttons |-> FALSE]

\* Faulty variant: the release does not compare the ids.
MutCompleteRequest(lock, requestId) ==
  [lock EXCEPT !.id = NoRequest, !.buttons = TRUE]

\* completeRequest(requestId)
completeRequest(lock, requestId) ==
  IF lock.id = requestId
  THEN [lock EXCEPT !.id = NoRequest, !.buttons = TRUE]
  ELSE lock

\* Faulty variant: the timeout rejects and leaves the lock as it is.
MutTimeoutRelease(lock, requestId) == lock

\* The timeout branch of the poll: release if we still own the lock.
TimeoutRelease(lock, requestId) ==
  IF lock.id = requestId
  THEN [lock EXCEPT !.id = NoRequest, !.buttons = TRUE]
  ELSE lock

\* What one run of the interval callback finds, attempts already counted.
PollOutcome(lock, attempts) ==
  IF lock.token # NoToken THEN "resolve"
  ELSE IF attempts >= maxAttempts THEN "timeout"
  ELSE "wait"

\* A run of a handler (the click handler of generateBtn, or handleChatSend on
\* a click or on Enter: both use the lock the same way) from its call of
\* getTurnstileToken on.
\*   id         the id getTurnstileToken generated, NoRequest if none
\*   requestId  the handler's variable, Undefined until the promise resolves
\*   pc         "polling", "fetching" (the request is in flight) or "done"
\*   tokensBefore  the tokens the widget had delivered when the run called
\*              getTurnstileToken
\*   attempts   the poll's counter while the caller polls, 0 afterwards
\*   sent       whether the handler has sent its request
Caller(id, pc, error) ==
  [id |-> id, requestId |-> Undefined, pc |-> pc, tokensBefore |-> tokensIssued,
   attempts |-> 0, token |-> NoToken, error |-> error, sent |-> FALSE]

InFlight(c) == c.pc \in {"polling", "fetching"}

InitLock ==
  /\ currentTurnstileToken = NoToken
  /\ currentRequestId = NoRequest
  /\ buttonsEnabled = TRUE
  /\ callers = <<>>
  /\ tokensIssued = 0
  /\ staleCalls = <<>>

\* A click on generateBtn or sendChatBtn, or Enter in the chat input, whose
\* handler reaches `await getTurnstileToken()`; widgetFound is what
\* document.querySelector('.cf-turnstile') finds.
GetTurnstileToken ==
  \E widgetFound \in BOOLEAN :
    LET requestId == Len(callers) + 1 IN
    /\ Len(callers) < MaxClicks
    /\ IF RequestInProgress(LockState)
       THEN /\ callers' = Append(callers,
                            Caller(NoRequest, "done", InProgressError))
            /\ UNCHANGED <<currentRequestId, currentTurnstileToken, buttonsEnabled>>
       ELSE /\ SetLock(Acquire(LockState, requestId))
            /\ callers' = Append(callers,
                            IF widgetFound
                            THEN Caller(requestId, "polling", "")
                            ELSE Caller(requestId, "done", WidgetError))
    /\ UNCHANGED <<tokensIssued, staleCalls>>
    /\ UNCHANGED <<limiterVars, serverVars, raceVars>>

\* window.onTurnstileRefresh(token): the widget delivers a token.
OnTurnstileRefresh ==
  /\ tokensIssued < MaxTokens
  /\ tokensIssued' = tokensIssued + 1
  /\ currentTurnstileToken' = tokensIssued + 1
  /\ UNCHANGED <<currentRequestId, buttonsEnabled, callers, staleCalls>>
  /\ UNCHANGED <<limiterVars, serverVars, raceVars>>

\* One run of the interval callback of a polling caller.  A resolved promise
\* lets the handler send its request before any other event runs.
CheckToken ==
  \E i \in 1..Len(callers) :
    LET c == callers[i]
        attempts == c.attempts + 1
        outcome == PollOutcome(LockState, attempts)
    IN  /\ c.pc = "polling"
        /\ IF outcome = "resolve"
           THEN /\ callers' = [callers EXCEPT ![i] =
                     [c EXCEPT !.attempts = 0, !.pc = "fetching",
                               !.token = currentTurnstileToken,
                               !.requestId = c.id, !.sent = TRUE]]
                /\ UNCHANGED <<currentRequestId, currentTurnstileToken, buttonsEnabled>>
           ELSE IF outcome = "timeout"
           THEN /\ SetLock(TimeoutRelease(LockState, c.id))
                /\ callers' = [callers EXCEPT ![i] =
                     [c EXCEPT !.attempts = 0, !.pc = "done",
                               !.error = TimeoutError]]
           ELSE /\ callers' = [callers EXCEPT ![i] = [c EXCEPT !.attempts = attempts]]
                /\ UNCHANGED <<currentRequestId, currentTurnstileToken, buttonsEnabled>>
        /\ UNCHANGED <<tokensIssued, staleCalls>>
        /\ UNCHANGED <<limiterVars, serverVars, raceVars>>

\* The request of a caller settles, fulfilled or failed alike: the handler's
\* finally block runs completeRequest(requestId).
FetchSettles ==
  \E i \in 1..Len(callers) :
    LET c == callers[i] IN
    /\ c.pc = "fetching"
    /\ SetLock(completeRequest(LockState, c.requestId))
    /\ callers' = [callers EXCEPT ![i] = [c EXCEPT !.pc = "done"]]
    /\ UNCHANGED <<tokensIssued, staleCalls>>
    /\ UNCHANGED <<limiterVars, serverVars, raceVars>>

\* A finished caller calls completeRequest once more, with the value its
\* requestId variable has.
CompleteRequestAgain ==
  \E i \in 1..Len(callers) :
    /\ Len(staleCalls) < MaxStale
    /\ callers[i].pc = "done"
    /\ SetLock(completeRequest(LockState, callers[i].requestId))
    /\ staleCalls' = Append(staleCalls, [id |-> callers[i].requestId,
                                          holder |-> currentRequestId])
    /\ UNCHANGED <<callers, tokensIssued>>
    /\ UNCHANGED <<limiterVars, serverVars, raceVars>>

(***************************************************************************)
(* The verification gate (functions/_utils.js): verifyTurnstileToken.      *)
(***************************************************************************)
\* Values of env.TURNSTILE_SECRET_KEY: the local-development sentinel, none
\* (undefined or empty), and a real secret.
SkipForLocalDev == "SKIP_FOR_LOCAL_DEV"
NoSecret == ""
RealSecret == "0x4AAAA-secret"
Secrets == {SkipForLocalDev, NoSecret, RealSecret}

\* Values of request.headers.get('CF-Turnstile-Token'): none (null or empty),
\* a token the widget issued, and a made-up one.
NoHeaderToken == ""
IssuedToken == "issued"
ForgedToken == "forged"
Tokens == {NoHeaderToken, IssuedToken, ForgedToken}

\* What the call of the siteverify service does: it answers {success: true}
\* (for an issued token only), it answers {success: false}, the fetch
\* throws, or response.json() throws on a body that is no JSON.
ServiceReplies(token) ==
  (IF token = IssuedToken THEN {"success"} ELSE {}) \cup
  {"failure", "throws", "unparsable"}

VerifyReturned(success, error, fetched) ==
  [threw |-> FALSE, success |-> success, error |-> error, fetched |-> fetched]
VerifyThrown(fetched) ==
  [threw |-> TRUE, success |-> FALSE, error |-> "", fetched |-> fetched]

\* Faulty variant: data.success is not looked at.
MutSiteVerify(reply) ==
  IF reply \in {"throws", "unparsable"} THEN VerifyThrown(TRUE)
  ELSE VerifyReturned(TRUE, "", TRUE)

\* The try block: fetch, response.json(), data.success.
SiteVerify(reply) ==
  IF reply \in {"throws", "unparsable"} THEN VerifyThrown(TRUE)
  ELSE IF reply = "failure"
  THEN VerifyReturned(FALSE, "Security verification failed", TRUE)
  ELSE VerifyReturned(TRUE, "", TRUE)

\* Faulty variant: an error of the service call lets the request through.
MutVerifyCatch(attempt) ==
  IF attempt.threw THEN VerifyReturned(TRUE, "", attempt.fetched) ELSE attempt

\* catch (error) { return {success: false, error: 'Security verification error'} }
VerifyCatch(attempt) ==
  IF attempt.threw
  THEN VerifyReturned(FALSE, "Security verification error", attempt.fetched)
  ELSE attempt

\* verifyTurnstileToken(token, env), the service replying as given.
verifyTurnstileToken(token, secret, reply) ==
  IF secret = SkipForLocalDev THEN VerifyReturned(TRUE, "", FALSE)
  ELSE IF token = NoHeaderToken
  THEN VerifyReturned(FALSE, "No Turnstile token provided", FALSE)
  ELSE IF secret = NoSecret
  THEN VerifyReturned(FALSE, "Server configuration error", FALSE)
  ELSE VerifyCatch(SiteVerify(reply))

(***************************************************************************)
(* The request handlers: onRequest of the four functions, and the four     *)
(* Express routes of server.js.                                            *)
(***************************************************************************)
RouteNames == {"generate-outreach-text", "generate-outreach-file",
               "generate-outreach-url", "market-chat"}
Methods == {"OPTIONS", "GET", "POST"}

\* The request body: JSON with the field the handler reads, JSON without
\* it, or no JSON at all.
Bodies == {"ok", "fieldMissing", "invalid"}

\* What lies behind the handler: all well, the page of a profile URL cannot
\* be scraped, or the completion API answers with an error.
Upstreams == {"ok", "scrapeFails", "completionFails"}

Response(status, calls) == [status |-> status, calls |-> calls]

\* Faulty variant: a failed verification does not stop the handler.
MutGateFailed(verification) == FALSE

\* if (!verification.success) return 403
GateFailed(verification) == ~verification.success

\* Faulty variant: a rejection of the limiter does not stop the handler.
MutLimiterRejected(rateLimitResult) == FALSE

\* if (!rateLimitResult.allowed) return rateLimitResponse(...)
LimiterRejected(rateLimitResult) == ~rateLimitResult.decision.allowed

\* The handler after both gates: body, then (URL handler) the scrape, then
\* the completion API.
Forward(route, body, upstream, calls) ==
  IF body = "invalid" THEN Response(500, calls)
  ELSE IF body = "fieldMissing" THEN Response(400, calls)
  ELSE IF route = "generate-outreach-url" /\ upstream = "scrapeFails"
  THEN Response(500, Append(calls, "scrape"))
  ELSE LET called ==
             Append(IF route = "generate-outreach-url"
                    THEN Append(calls, "scrape") ELSE calls,
                    "completion")
       IN  IF upstream = "completionFails"
           THEN Response(500, called)
           ELSE Response(200, called)

\* onRequest of a function handler for a POST: rateLimitResult is what
\* checkRateLimit gave, verification what verifyTurnstileToken gives when it
\* is called.
onRequest(route, rateLimitResult, verification, body, upstream) ==
  IF rateLimitResult.threw THEN Response(500, <<"checkRateLimit">>)
  ELSE IF LimiterRejected(rateLimitResult)
  THEN Response(429, <<"checkRateLimit">>)
  ELSE IF verification.threw
  THEN Response(500, <<"checkRateLimit", "verifyTurnstileToken">>)
  ELSE IF GateFailed(verification)
  THEN Response(403, <<"checkRateLimit", "verifyTurnstileToken">>)
  ELSE Forward(route, body, upstream,
               <<"checkRateLimit", "verifyTurnstileToken">>)

\* onRequest for the other methods: the CORS preflight, and 405.
onOtherMethod(method) ==
  IF method = "OPTIONS" THEN Response(200, <<>>) ELSE Response(405, <<>>)

\* A route of server.js: the body, then the completion API.
ExpressRoute(route, body, upstream) ==
  IF body = "fieldMissing" THEN Response(400, <<>>)
  ELSE IF route = "generate-outreach-url" /\ upstream = "scrapeFails"
  THEN Response(500, <<"scrape">>)
  ELSE Forward(route, "ok", upstream, <<>>)

\* What lastResponse keeps of a handled request: the server and route, the
\* method, the token and the service's reply ("" when it was not asked), what the limiter and the gate
\* said ("none" when they were not called), whether siteverify was fetched,
\* and the response.
Handled(server, route, method, token, reply, rateLimit, verification, response) ==
  LET gateCalled ==
        \E k \in 1..Len(response.calls) : response.calls[k] = "verifyTurnstileToken"
  IN  [server |-> server, route |-> route, method |-> method, token |-> token,
       reply |-> IF gateCalled /\ verification.fetched THEN reply ELSE "",
       rateLimit |-> rateLimit,
       verification |-> IF ~gateCalled THEN "none"
                        ELSE IF verification.threw THEN "threw"
                        ELSE IF verification.success THEN "success"
                        ELSE "failure",
       error |-> IF gateCalled THEN verification.error ELSE "",
       fetched |-> gateCalled /\ verification.fetched,
       status |-> response.status, calls |-> response.calls]

NoResponse ==
  Handled("none", "", "", NoHeaderToken, "", "none",
          VerifyReturned(FALSE, "", FALSE), Response(0, <<>>))

InitServerWith(secret) ==
  /\ turnstileSecret = secret
  /\ lastResponse = NoResponse
  /\ onlyGateFailures = TRUE

InitServer == InitServerWith(RealSecret)

(***************************************************************************)
(* The state machine.                                                      *)
(***************************************************************************)
TotalCalls == Len(log[SteadyIP]) + Len(log[OtherIP]) + Len(log["unknown"])

\* The steady client has sent its request of the current second.
SteadyArrived ==
  /\ log[SteadyIP] # <<>>
  /\ log[SteadyIP][Len(log[SteadyIP])].at = now

\* What a step that is not the steady client's next regular request costs.
Cost(isRegular) == IF isRegular THEN 0 ELSE 1

InitLimiter(configured) ==
  /\ now = 0
  /\ kv = << >>
  /\ kvConfigured = configured
  /\ log = [ip \in Identities |-> <<>>]
  /\ irregular = 0

InitRace ==
  /\ flight = <<>>
  /\ slowDone = <<>>

InitWith(configured) ==
  /\ InitLimiter(configured)
  /\ InitLock
  /\ InitServer
  /\ InitRace

Init == InitWith(TRUE)

InitFault == \E configured \in BOOLEAN : InitWith(configured)

\* One second passes, once the steady client has sent this second's request
\* (and while a call is still to come).
Tick ==
  /\ TotalCalls < MaxCalls
  /\ SteadyArrived
  /\ now' = now + 1
  /\ UNCHANGED <<kv, kvConfigured, log, irregular>>
  /\ UNCHANGED <<clientVars, serverVars, raceVars>>

\* Lengths of a pause around the store's TTL, in seconds.
LongPauseSteps == {ExpirationTtl - 1, ExpirationTtl, ExpirationTtl + 1}

\* The clients pause for about as long as an entry lives.
LongPause ==
  /\ TotalCalls < MaxCalls
  /\ irregular < MaxIrregular
  /\ \E d \in LongPauseSteps : now' = now + d
  /\ irregular' = irregular + 1
  /\ UNCHANGED <<kv, kvConfigured, log>>
  /\ UNCHANGED <<clientVars, serverVars, raceVars>>

\* The clients pause.
Pause ==
  /\ TotalCalls < MaxCalls
  /\ irregular < MaxIrregular
  /\ \E d \in PauseSteps : now' = now + d
  /\ irregular' = irregular + 1
  /\ UNCHANGED <<kv, kvConfigured, log>>
  /\ UNCHANGED <<clientVars, serverVars, raceVars>>

\* A call checkRateLimit(request, env) whose get and put throw as given: what
\* it does to the store, and its entry in the log.
CallLimiter(request, getThrows, putThrows) ==
  LET ip == ClientIP(request)
      call == checkRateLimit(request, kvConfigured, kv, now, getThrows, putThrows)
      key == call.key
      res == call.run
      cost == Cost(ip = SteadyIP /\ ~SteadyArrived /\ ~getThrows /\ ~putThrows)
  IN  /\ TotalCalls < MaxCalls
      /\ irregular + cost <= MaxIrregular
      /\ irregular' = irregular + cost
      /\ kv' = IF res.put = NoPut THEN kv
               ELSE KvPut(kv, key, res.put, ExpirationTtl, now)
      /\ log' = [log EXCEPT ![ip] =
                   Append(@, [at |-> now,
                              getThrew |-> getThrows /\ res.ops # <<>>,
                              putThrew |-> putThrows /\ Len(res.ops) = 2,
                              read |-> IF kvConfigured /\ ~getThrows
                                       THEN ReadKind(KvGet(kv, key, now))
                                       ELSE "none",
                              threw |-> res.threw,
                              decision |-> res.decision,
                              key |-> key,
                              ops |-> res.ops])]
      /\ UNCHANGED <<now, kvConfigured>>

\* A call of checkRateLimit on its own.
Call(request, getThrows, putThrows) ==
  /\ CallLimiter(request, getThrows, putThrows)
  /\ UNCHANGED <<clientVars, serverVars, raceVars>>

\* A request against a store without faults.
CheckRateLimit == \E request \in Requests : Call(request, FALSE, FALSE)

\* A request of the steady client against a store without faults.
CheckRateLimitSteady ==
  \E request \in Requests :
    /\ ClientIP(request) = SteadyIP
    /\ Call(request, FALSE, FALSE)

\* A request of the steady client during which the store's get or put throws.
CheckRateLimitStoreFault ==
  \E request \in Requests, getThrows, putThrows \in BOOLEAN :
    /\ kvConfigured
    /\ ClientIP(request) = SteadyIP
    /\ getThrows \/ putThrows
    /\ Call(request, getThrows, putThrows)

\* A request of any client when no store is configured.
CheckRateLimitNoStore ==
  \E request \in Requests :
    /\ ~kvConfigured
    /\ ClientIP(request) # SteadyIP
    /\ Call(request, FALSE, FALSE)

\* Values another writer may leave under a limiter key.
ForeignValues ==
  { Invalid, OtherJson, NonArray,
    Array([i \in 1..RATE_LIMIT_MAX_REQUESTS |-> 1000], RATE_LIMIT_MAX_REQUESTS),
    Array(<<1000>>, 1) }

\* Another writer of the store overwrites the entry of the steady client.
ForeignWrite ==
  /\ irregular < MaxIrregular
  /\ kvConfigured
  /\ \E json \in ForeignValues :
       kv' = KvPut(kv, kvKey(SteadyIP), json, ExpirationTtl, now)
  /\ irregular' = irregular + 1
  /\ UNCHANGED <<now, kvConfigured, log>>
  /\ UNCHANGED <<clientVars, serverVars, raceVars>>

Next == Tick \/ Pause \/ CheckRateLimit

NextFault ==
  \/ Tick
  \/ CheckRateLimitSteady
  \/ CheckRateLimitStoreFault
  \/ CheckRateLimitNoStore
  \/ ForeignWrite

\* Sequential checks against a configured store without faults.
Spec == Init /\ [][Next]_vars

NextExpiry == Tick \/ Pause \/ LongPause \/ CheckRateLimit

\* Sequential checks against a configured store, with pauses that outlast
\* the entries.
SpecExpiry == Init /\ [][NextExpiry]_vars

\* Sequential checks with store faults, foreign values, or no store at all.
SpecFault == InitFault /\ [][NextFault]_vars

\* The request of the steady client.
SteadyRequest == [cf |-> SteadyIP, xff |-> <<>>]

\* What a request meets after the gates: at most one thing goes wrong.
Fates == {f \in Bodies \X Upstreams : f[1] = "ok" \/ f[2] = "ok"}

\* A POST of the steady client, at its steady pace, to a function handler.
\* The handler's call of checkRateLimit is the step CallLimiter; the result
\* it hands to the handler is the one that step logged.
OnRequestPost ==
  /\ ~SteadyArrived
  /\ CallLimiter(SteadyRequest, FALSE, FALSE)
  /\ \E route \in RouteNames, token \in Tokens, fate \in Fates :
       \E reply \in ServiceReplies(token) :
         LET entry == log'[SteadyIP][Len(log'[SteadyIP])]
             rateLimitResult == [threw |-> entry.threw, decision |-> entry.decision]
             verification == verifyTurnstileToken(token, turnstileSecret, reply)
         IN  lastResponse' =
               Handled("functions", route, "POST", token, reply,
                       IF rateLimitResult.decision.allowed
                       THEN "allowed" ELSE "rejected",
                       verification,
                       onRequest(route, rateLimitResult, verification, fate[1], fate[2]))
  /\ onlyGateFailures' = (onlyGateFailures /\ lastResponse'.status \in {429, 403, 400})
  /\ UNCHANGED turnstileSecret
  /\ UNCHANGED <<clientVars, raceVars>>

\* A request of another method to a function handler.
OnRequestOther ==
  \E route \in RouteNames, method \in Methods \ {"POST"} :
    /\ lastResponse' =
         Handled("functions", route, method, NoHeaderToken, "", "none",
                 VerifyReturned(FALSE, "", FALSE), onOtherMethod(method))
    /\ UNCHANGED <<turnstileSecret, onlyGateFailures>>
    /\ UNCHANGED <<limiterVars, clientVars, raceVars>>

\* A POST to a route of the Express server.
ExpressPost ==
  \E route \in RouteNames, token \in Tokens, fate \in Fates :
    /\ fate[1] # "invalid"
    /\ lastResponse' =
         Handled("express", route, "POST", token, "", "none",
                 VerifyReturned(FALSE, "", FALSE),
                 ExpressRoute(route, fate[1], fate[2]))
    /\ UNCHANGED <<turnstileSecret, onlyGateFailures>>
    /\ UNCHANGED <<limiterVars, clientVars, raceVars>>

InitHandlers ==
  /\ InitLimiter(TRUE)
  /\ InitLock
  /\ InitRace
  /\ \E secret \in Secrets : InitServerWith(secret)

NextFunctions == Tick \/ OnRequestPost \/ OnRequestOther

NextRoutes == NextFunctions \/ ExpressPost

\* The four function handlers in front of the limiter and the gate.
SpecFunctions == InitHandlers /\ [][NextFunctions]_vars

\* The function handlers and the Express routes.
SpecRoutes == InitHandlers /\ [][NextRoutes]_vars

\* A slow check of the steady client begins: it takes `now`
\* (const now = Math.floor(Date.now() / 1000)) and awaits the store's get.
\* The steps of a slow check fall after the steady client's request of the
\* second.
SlowStart ==
  /\ SteadyArrived
  /\ TotalCalls + Len(flight) + Len(slowDone) < MaxCalls
  /\ irregular < MaxIrregular
  /\ irregular' = irregular + 1
  /\ flight' = Append(flight, [pc |-> "started", t |-> now, data |-> Null])
  /\ UNCHANGED <<now, kv, kvConfigured, log, slowDone>>
  /\ UNCHANGED <<clientVars, serverVars>>

\* The store serves the get of a slow check.
SlowGet ==
  \E i \in 1..Len(flight) :
    /\ SteadyArrived
    /\ flight[i].pc = "started"
    /\ flight' = [flight EXCEPT ![i] =
                    [@ EXCEPT !.pc = "read",
                              !.data = KvGet(kv, kvKey(SteadyIP), now)]]
    /\ UNCHANGED <<limiterVars, slowDone>>
    /\ UNCHANGED <<clientVars, serverVars>>

\* A slow check goes on from what it read: filter, decide, and (admitted)
\* push and put; the store serves the put at once.
SlowPut ==
  \E i \in 1..Len(flight) :
    LET c == flight[i]
        res == CatchBlock(TryBlock(c.data, c.t, FALSE, FALSE))
    IN  /\ SteadyArrived
        /\ c.pc = "read"
        /\ kv' = IF res.put = NoPut THEN kv
                 ELSE KvPut(kv, kvKey(SteadyIP), res.put, ExpirationTtl, now)
        /\ slowDone' = Append(slowDone, [at |-> c.t, decision |-> res.decision])
        /\ flight' = SubSeq(flight, 1, i - 1) \o SubSeq(flight, i + 1, Len(flight))
        /\ UNCHANGED <<now, kvConfigured, log, irregular>>
        /\ UNCHANGED <<clientVars, serverVars>>

\* A second passes; no check stays in flight longer than MaxLag seconds.
TickInFlight ==
  /\ \A i \in 1..Len(flight) : now - flight[i].t < MaxLag
  /\ Tick

NextRace == TickInFlight \/ CheckRateLimitSteady \/ SlowStart \/ SlowGet \/ SlowPut

\* Checks of one client that overlap: beside the checks that run from read
\* to write undisturbed, slow checks whose `now`, get and put are apart.
SpecRace == Init /\ [][NextRace]_vars

NextClient == GetTurnstileToken \/ OnTurnstileRefresh \/ CheckToken \/ FetchSettles

NextRelease == NextClient \/ CompleteRequestAgain

\* The page: clicks, widget callbacks, poll ticks and settling requests.
SpecClient == Init /\ [][NextClient]_vars

\* The page, with finished callers that call completeRequest again.
SpecRelease == Init /\ [][NextRelease]_vars

\* The page under a scheduler that runs every due timer callback and a
\* network whose every request settles.
SpecClientLive ==
  SpecClient /\ WF_vars(CheckToken) /\ WF_vars(FetchSettles)

(***************************************************************************)
(* Properties.  N and W abbreviate the two program constants; Entry(ip, j) *)
(* is the j-th call of client ip.                                          *)
(***************************************************************************)
N == RATE_LIMIT_MAX_REQUESTS
W == RATE_LIMIT_WINDOW_SECONDS

Entry(ip, j) == log[ip][j]
CallsOf(ip) == 1..Len(log[ip])
Min(S) == CHOOSE x \in S : \A y \in S : x <= y

\* The admitted calls of ip, among its first j, stamped in (t - W, t].
AdmittedInWindow(ip, j, t) ==
  {i \in 1..j : /\ Entry(ip, i).decision.allowed
                /\ Entry(ip, i).at > t - W
                /\ Entry(ip, i).at <= t}

\* The call of this step, if it is one: the client whose log grew.
CalledIn(ip) == log'[ip] # log[ip]
NewEntry(ip) == log'[ip][Len(log'[ip])]

IsReject(d) ==
  /\ DOMAIN d = {"allowed", "error", "retryAfter", "remaining"}
  /\ d.allowed = FALSE
  /\ d.error = "Rate limit exceeded. Please try again later."
  /\ d.retryAfter \in Int /\ d.retryAfter >= 1
  /\ d.remaining = 0

IsNormalAdmit(d, t) ==
  /\ DOMAIN d = {"allowed", "remaining", "resetAt"}
  /\ d.allowed = TRUE
  /\ d.remaining \in Int
  /\ d.resetAt = t + W

\* C1: with a configured store without faults, a clock that never goes back
\* and calls made one at a time, the admitted calls of one client stamped in
\* a trailing window (t - W, t] are at most N: for t the present time and
\* for t the time of each of its calls (the count of a window ending at any
\* other time is at most the count of the window ending at the last call
\* before it).
C1_WindowBound ==
  \A ip \in Identities :
    /\ Cardinality(AdmittedInWindow(ip, Len(log[ip]), now)) <= N
    /\ \A j \in CallsOf(ip) :
         Cardinality(AdmittedInWindow(ip, j, Entry(ip, j).at)) <= N

\* A full window: N admitted calls in the trailing window and a call refused.
C1_Witness ==
  /\ Cardinality(AdmittedInWindow(SteadyIP, Len(log[SteadyIP]), now)) = N
  /\ \E j \in CallsOf(SteadyIP) : ~Entry(SteadyIP, j).decision.allowed

\* C2: from an empty store, each of the first k <= N calls of a client that
\* lies less than W seconds after its first call is admitted, and the j-th
\* of them returns remaining = N - j (N - 1 on the first, one less on each).
C2_FirstCallsAdmitted ==
  \A ip \in Identities : \A j \in CallsOf(ip) :
    (j <= N /\ Entry(ip, j).at - Entry(ip, 1).at < W)
      => /\ Entry(ip, j).decision.allowed
         /\ Entry(ip, j).decision.remaining = N - j

\* N calls within less than W seconds, the last leaving remaining = 0.
C2_Witness ==
  /\ Len(log[SteadyIP]) = N
  /\ Entry(SteadyIP, N).at - Entry(SteadyIP, 1).at < W
  /\ Entry(SteadyIP, N).decision.remaining = 0

\* C3: a call that comes when N admitted calls of the same client lie less
\* than W seconds back is rejected: allowed = false, remaining = 0 and
\* retryAfter = max(1, oldest of those timestamps + W - now), at least 1.
C3_NextCallRejected ==
  \A ip \in Identities : \A j \in CallsOf(ip) :
    LET t == Entry(ip, j).at
        prior == AdmittedInWindow(ip, j - 1, t)
        oldest == Min({Entry(ip, i).at : i \in prior})
    IN  Cardinality(prior) >= N
          => /\ IsReject(Entry(ip, j).decision)
             /\ Entry(ip, j).decision.retryAfter = Max(1, oldest + W - t)

\* The (N+1)-th call of a client within W seconds.
C3_Witness ==
  /\ Len(log[SteadyIP]) = N + 1
  /\ Entry(SteadyIP, N + 1).at - Entry(SteadyIP, 1).at < W
  /\ ~Entry(SteadyIP, N + 1).decision.allowed

\* C4: when a call of a client at time t is rejected with retryAfter = r, a
\* later call of that client at time t + r, none admitted in between, is
\* admitted.
C4_AdmittedAfterRetryAfter ==
  \A ip \in Identities : \A j \in CallsOf(ip) : \A k \in CallsOf(ip) :
    ( /\ j < k
      /\ ~Entry(ip, j).decision.allowed
      /\ Entry(ip, k).at = Entry(ip, j).at + Entry(ip, j).decision.retryAfter
      /\ \A i \in (j + 1)..(k - 1) : ~Entry(ip, i).decision.allowed )
      => Entry(ip, k).decision.allowed

\* A rejected call and an admitted one exactly retryAfter seconds later.
C4_Witness ==
  \E j \in CallsOf(SteadyIP) : \E k \in CallsOf(SteadyIP) :
    /\ j < k
    /\ ~Entry(SteadyIP, j).decision.allowed
    /\ Entry(SteadyIP, k).at =
         Entry(SteadyIP, j).at + Entry(SteadyIP, j).decision.retryAfter
    /\ Entry(SteadyIP, k).decision.allowed

\* The end-to-end scenario: "1.2.3.4" has called at t = 0, 1, ..., 19, at
\* t = 20 and at t = 61, and nothing else has called.
ScenarioUpTo20 ==
  /\ Len(log[SteadyIP]) >= N + 1
  /\ \A j \in 1..(N + 1) : Entry(SteadyIP, j).at = j - 1
  /\ log[OtherIP] = <<>> /\ log["unknown"] = <<>>

ScenarioUpTo61 ==
  /\ ScenarioUpTo20
  /\ Len(log[SteadyIP]) = N + 2
  /\ Entry(SteadyIP, N + 2).at = 61

\* C5, as claimed: in the scenario the call at t = 61 is admitted with
\* remaining = 19.
C5_Original ==
  ScenarioUpTo61
    => /\ Entry(SteadyIP, N + 2).decision.allowed
       /\ Entry(SteadyIP, N + 2).decision.remaining = 19

\* C5, amended: in the scenario the call at t = 61 is admitted with
\* remaining = 1: the window (1, 61] still holds the eighteen calls of
\* t = 2..19, and the call itself is the nineteenth.
C5_Amended ==
  ScenarioUpTo61
    => /\ \A j \in 1..N : Entry(SteadyIP, j).decision.allowed
       /\ ~Entry(SteadyIP, N + 1).decision.allowed
       /\ Entry(SteadyIP, N + 2).decision.allowed
       /\ Entry(SteadyIP, N + 2).decision.remaining = 1

C5_Witness == ScenarioUpTo61 /\ Entry(SteadyIP, N + 2).decision.allowed

\* C6: in the scenario the calls at t = 0..19 are admitted and the call at
\* t = 20 is rejected with retryAfter = 40.
C6_ScenarioReject ==
  ScenarioUpTo20
    => /\ \A j \in 1..N : Entry(SteadyIP, j).decision.allowed
       /\ IsReject(Entry(SteadyIP, N + 1).decision)
       /\ Entry(SteadyIP, N + 1).decision.retryAfter = 40

C6_Witness == ScenarioUpTo20 /\ ~Entry(SteadyIP, N + 1).decision.allowed

\* A call of client ip touches the store under "ratelimit:<ip>" alone: its
\* get and put name that key, and every other entry is what it was.
C7_Frame ==
  \A ip \in Identities :
    CalledIn(ip) =>
      LET own == "ratelimit:" \o ip IN
      /\ NewEntry(ip).key = own
      /\ DOMAIN kv' \subseteq DOMAIN kv \cup {own}
      /\ \A k \in DOMAIN kv : k # own => k \in DOMAIN kv' /\ kv'[k] = kv[k]
      /\ \A other \in Identities \ {ip} : log'[other] = log[other]

\* The decision of a call is fixed by the earlier calls of the same client:
\* it is admitted exactly when fewer than N admitted calls of that client
\* lie in its window, and then remaining counts those and itself.
C7_OwnHistory ==
  \A ip \in Identities : \A j \in CallsOf(ip) :
    LET own == Cardinality(AdmittedInWindow(ip, j - 1, Entry(ip, j).at)) IN
    /\ Entry(ip, j).decision.allowed <=> own < N
    /\ Entry(ip, j).decision.allowed => Entry(ip, j).decision.remaining = N - own - 1

\* C7: isolation.  A call for client A reads and writes the key ratelimit:A
\* alone and leaves the record of every other client unchanged, and the
\* decision for a client depends on that client's own calls alone, however
\* the calls of the clients interleave.
C7_Isolation == [][C7_Frame]_vars /\ []C7_OwnHistory

\* Two clients have records, and the steady client has called before and
\* after the other one did.
C7_Witness ==
  /\ {"ratelimit:" \o SteadyIP, "ratelimit:" \o OtherIP} \subseteq DOMAIN kv
  /\ log[OtherIP] # <<>>
  /\ \E j \in CallsOf(SteadyIP) : Entry(SteadyIP, j).at < Entry(OtherIP, 1).at
  /\ \E j \in CallsOf(SteadyIP) : Entry(SteadyIP, j).at > Entry(OtherIP, 1).at

\* The kinds of value read that are no {timestamps: int[]}.
MalformedKinds == {"invalid", "other", "nonArray", "strings"}

\* C8: fail-open.  Whenever the store's get throws, its put throws, or the
\* value read is malformed, checkRateLimit returns, without throwing, a
\* decision with allowed = true.
C8_FailOpen ==
  \A ip \in Identities : \A j \in CallsOf(ip) :
    (\/ Entry(ip, j).getThrew
     \/ Entry(ip, j).putThrew
     \/ Entry(ip, j).read \in MalformedKinds)
      => /\ ~Entry(ip, j).threw
         /\ Entry(ip, j).decision.allowed

\* C9, as claimed: every call returns a normal Admit (allowed = true, an
\* integer remaining, resetAt = now + W) or a Reject (allowed = false, an
\* error string, retryAfter >= 1, remaining = 0).
C9_Original ==
  \A ip \in Identities : \A j \in CallsOf(ip) :
    /\ ~Entry(ip, j).threw
    /\ \/ IsNormalAdmit(Entry(ip, j).decision, Entry(ip, j).at)
       \/ IsReject(Entry(ip, j).decision)

\* C9, amended: every call returns, and its decision has one of four shapes.
\* With no store configured it is {allowed: true} alone; when the get or the
\* put throws, or the value read makes the body throw, it is
\* {allowed: true, error: 'Rate limit check failed'}; neither carries
\* remaining or resetAt.  Otherwise, the value read being absent or holding
\* integer timestamps, it is a normal Admit (allowed = true, remaining in
\* 0..N-1, resetAt = now + W) or a Reject (allowed = false, an error string,
\* retryAfter >= 1, remaining = 0).
C9_Amended ==
  \A ip \in Identities : \A j \in CallsOf(ip) :
    LET e == Entry(ip, j) IN
    /\ ~e.threw
    /\ IF ~kvConfigured
       THEN e.decision = [allowed |-> TRUE] /\ e.ops = <<>>
       ELSE IF e.getThrew \/ e.putThrew \/ e.read \in {"invalid", "nonArray"}
       THEN e.decision = [allowed |-> TRUE, error |-> "Rate limit check failed"]
       ELSE e.read \in {"null", "array", "other"}
              => \/ /\ IsNormalAdmit(e.decision, e.at)
                    /\ e.decision.remaining \in 0..(N - 1)
                 \/ IsReject(e.decision)

\* One client has been admitted, rejected, and admitted on a store error.
C9_Witness ==
  \E i \in CallsOf(SteadyIP) : \E j \in CallsOf(SteadyIP) : \E k \in CallsOf(SteadyIP) :
    /\ IsNormalAdmit(Entry(SteadyIP, i).decision, Entry(SteadyIP, i).at)
    /\ IsReject(Entry(SteadyIP, j).decision)
    /\ Entry(SteadyIP, k).getThrew
    /\ Entry(SteadyIP, k).decision = [allowed |-> TRUE, error |-> "Rate limit check failed"]

\* A call that rejects does one get and no put: the store, expiry times
\* included, is what it was.
C10_RejectStep ==
  \A ip \in Identities :
    (CalledIn(ip) /\ ~NewEntry(ip).decision.allowed)
      => /\ kv' = kv
         /\ NewEntry(ip).ops = <<"get">>

\* Rejected calls do not push the next admission back: once a call at t was
\* rejected with retryAfter = r, a call at or after t + r is admitted,
\* however many rejected calls came in between.
C10_NoDelay ==
  \A ip \in Identities : \A j \in CallsOf(ip) : \A k \in CallsOf(ip) :
    ( /\ j < k
      /\ ~Entry(ip, j).decision.allowed
      /\ Entry(ip, k).at >= Entry(ip, j).at + Entry(ip, j).decision.retryAfter
      /\ \A i \in (j + 1)..(k - 1) : ~Entry(ip, i).decision.allowed )
      => Entry(ip, k).decision.allowed

\* C10: a rejected check is not counted.  A call that rejects writes nothing,
\* so the record of the client and its expiry are what they were before the
\* call, and any number of rejected calls in a row leaves the time at which
\* the client is admitted again where it was.
C10_RejectNotCounted == [][C10_RejectStep]_vars /\ []C10_NoDelay

\* Two rejected calls in a row, then an admitted one.
C10_Witness ==
  \E j \in CallsOf(SteadyIP) :
    /\ j + 2 <= Len(log[SteadyIP])
    /\ ~Entry(SteadyIP, j).decision.allowed
    /\ ~Entry(SteadyIP, j + 1).decision.allowed
    /\ Entry(SteadyIP, j + 2).decision.allowed

\* C11: when no store is configured (env.RATE_LIMIT_KV absent) every call of
\* checkRateLimit, of every client and at any count, returns the bare admit
\* {allowed: true} and performs no store read and no store write: the store
\* stays as it was.
C11_NoStoreAdmitsAll ==
  ~kvConfigured =>
    /\ kv = << >>
    /\ \A ip \in Identities : \A j \in CallsOf(ip) :
         /\ Entry(ip, j).decision = [allowed |-> TRUE]
         /\ ~Entry(ip, j).threw
         /\ Entry(ip, j).ops = <<>>

\* Without a store, the steady client has sent more than N requests inside
\* one window and another client has sent one too.
C11_Witness ==
  /\ ~kvConfigured
  /\ Len(log[SteadyIP]) > N
  /\ Entry(SteadyIP, Len(log[SteadyIP])).at - Entry(SteadyIP, 1).at < W
  /\ \E ip \in Identities \ {SteadyIP} : log[ip] # <<>>

(***************************************************************************)
(* Properties of the page's lock.                                          *)
(***************************************************************************)
CallerIds == 1..Len(callers)
InFlightCallers == {i \in CallerIds : InFlight(callers[i])}

\* C12: single-flight.  Under every interleaving of clicks, Enter presses,
\* widget callbacks, poll ticks and settling requests, at most one caller
\* that passed the in-progress check is polling or has its request in
\* flight, and that caller is the holder of the lock.
C12_SingleFlight ==
  /\ Cardinality(InFlightCallers) <= 1
  /\ \A i \in InFlightCallers : callers[i].id = currentRequestId

\* A second cycle is in flight after a first one has finished, and a third
\* caller that arrived meanwhile was turned away.
C12_Witness ==
  /\ Len(callers) = 3
  /\ callers[1].pc = "done" /\ callers[1].sent
  /\ callers[2].pc = "fetching"
  /\ callers[3].error = InProgressError

\* A step in which a handler called getTurnstileToken, and the run it added.
Called == Len(callers') = Len(callers) + 1
NewCaller == callers'[Len(callers')]

\* C13: a call of getTurnstileToken while a holder exists is rejected at once
\* with the in-progress error and is never queued: it leaves the holder id,
\* the cached token and the button state unchanged, and the rejected caller
\* sends no request, then or later.
C13_RejectStep ==
  (Called /\ currentRequestId # NoRequest) =>
    /\ NewCaller.error = InProgressError
    /\ NewCaller.pc = "done"
    /\ ~NewCaller.sent
    /\ UNCHANGED <<currentRequestId, currentTurnstileToken, buttonsEnabled>>

C13_NeverQueued ==
  \A i \in CallerIds :
    callers[i].error = InProgressError =>
      /\ callers[i].pc = "done"
      /\ ~callers[i].sent
      /\ callers[i].id = NoRequest

C13_RejectedWhileHeld == [][C13_RejectStep]_vars /\ []C13_NeverQueued

\* A caller was turned away while the first one polled; the first one has
\* since finished and the lock is free, and the rejected caller has still
\* sent nothing.
C13_Witness ==
  /\ Len(callers) >= 2
  /\ callers[1].pc = "done" /\ callers[1].sent
  /\ callers[2].error = InProgressError
  /\ currentRequestId = NoRequest

\* The values a requestId variable of a handler can hold.
RequestIds == {Undefined} \cup (1..MaxClicks)

Released(lock) == [lock EXCEPT !.id = NoRequest, !.buttons = TRUE]

\* C14: completeRequest(id) clears the holder (and enables the buttons) only
\* when id equals the current holder; with a stale, superseded or undefined
\* id it is a no-op that leaves holder, cached token and button state as
\* they were; and calling it twice has the same effect as calling it once.
C14_Function ==
  \A id \in RequestIds :
    LET once == completeRequest(LockState, id) IN
    /\ id = currentRequestId => once = Released(LockState)
    /\ id # currentRequestId => once = LockState
    /\ completeRequest(once, id) = once

\* The same of the calls the page makes: the finally block of a handler
\* whose request settled, and a repeated call of a finished caller.
C14_Step ==
  /\ \A i \in CallerIds :
       (callers[i].pc = "fetching" /\ callers'[i].pc = "done") =>
         /\ callers[i].requestId = currentRequestId
         /\ currentRequestId' = NoRequest /\ buttonsEnabled'
         /\ UNCHANGED currentTurnstileToken
  /\ Len(staleCalls') > Len(staleCalls) =>
       LET id == staleCalls'[Len(staleCalls')].id IN
       IF id = currentRequestId
       THEN currentRequestId' = NoRequest /\ buttonsEnabled'
            /\ UNCHANGED currentTurnstileToken
       ELSE UNCHANGED <<currentRequestId, currentTurnstileToken, buttonsEnabled>>

C14_OwnerOnlyRelease == [][C14_Step]_vars /\ []C14_Function

\* A finished caller has called completeRequest again with its old id while
\* a later caller held the lock, and that caller still holds it.
C14_Witness ==
  \E k \in 1..Len(staleCalls) :
    /\ staleCalls[k].id \in 1..MaxClicks
    /\ staleCalls[k].holder # NoRequest
    /\ staleCalls[k].holder # staleCalls[k].id
    /\ currentRequestId = staleCalls[k].holder
    /\ InFlight(callers[currentRequestId])

\* A step in which the poll of caller i gave up.
TimedOut(i) ==
  /\ i \in CallerIds
  /\ callers[i].pc = "polling"
  /\ callers'[i].error = TimeoutError

\* C15: lock timeout.  A caller whose poll saw no token in any of its 100
\* runs is rejected with the timeout error at the 100th run (and not
\* before); the holder is cleared and the buttons are enabled again in that
\* same step, so that a call of getTurnstileToken made right afterwards
\* takes the lock.
C15_TimeoutStep ==
  /\ \A i \in CallerIds :
       TimedOut(i) =>
         /\ callers[i].attempts = maxAttempts - 1
         /\ currentTurnstileToken = NoToken
         /\ callers'[i].pc = "done" /\ ~callers'[i].sent
         /\ currentRequestId' = NoRequest
         /\ buttonsEnabled'
  /\ \A i \in CallerIds :
       (callers[i].error = TimeoutError /\ Called /\ Len(callers) = i) =>
         /\ NewCaller.error # InProgressError
         /\ currentRequestId' = NewCaller.id
         /\ NewCaller.id # NoRequest

\* No poll runs more than 100 times, and a caller that timed out is done
\* and has sent nothing.
C15_PollBounded ==
  \A i \in CallerIds :
    /\ callers[i].pc = "polling" => callers[i].attempts < maxAttempts
    /\ callers[i].error = TimeoutError =>
         callers[i].pc = "done" /\ ~callers[i].sent

C15_LockTimeout == [][C15_TimeoutStep]_vars /\ []C15_PollBounded

\* The first caller timed out and the very next call holds the lock and polls.
C15_Witness ==
  /\ Len(callers) >= 2
  /\ callers[1].error = TimeoutError
  /\ callers[2].pc = "polling"
  /\ currentRequestId = callers[2].id
  /\ ~buttonsEnabled

\* C16: lock lifecycle.  Every call of getTurnstileToken that sets the holder
\* is eventually followed by the holder returning to null, however the
\* caller finishes (success, failure of the request, timeout, or an error
\* getTurnstileToken raises after it set the holder), every request
\* settling; and the lock is never held while no caller is in flight.
C16_Released == (currentRequestId # NoRequest) ~> (currentRequestId = NoRequest)

C16_NoOrphanLock ==
  currentRequestId # NoRequest =>
    \E i \in CallerIds : InFlight(callers[i]) /\ callers[i].id = currentRequestId

C16_LockLifecycle == C16_Released /\ []C16_NoOrphanLock

(***************************************************************************)
(* Properties of the handlers and of the verification gate.                *)
(***************************************************************************)
Reached(name, calls) == \E k \in 1..Len(calls) : calls[k] = name

\* The last request was a POST to a function handler.
FunctionPost ==
  lastResponse.server = "functions" /\ lastResponse.method = "POST"

\* The orders in which a function handler may have called its three steps.
GateOrders(route) ==
  { <<"checkRateLimit">>,
    <<"checkRateLimit", "verifyTurnstileToken">> } \cup
  ( IF route = "generate-outreach-url"
    THEN { <<"checkRateLimit", "verifyTurnstileToken", "scrape">>,
           <<"checkRateLimit", "verifyTurnstileToken", "scrape", "completion">> }
    ELSE { <<"checkRateLimit", "verifyTurnstileToken", "completion">> } )

\* C17: in each function handler (text, file, URL, chat) every POST runs the
\* rate-limit check first, then the verification gate, then the completion
\* API.  A request the limiter rejects is answered 429 and reaches neither
\* the gate nor the API; a request whose verification fails is answered 403
\* and does not reach the API; the API is called only for a request that
\* was admitted and verified.
C17_GateOrder ==
  FunctionPost =>
    /\ lastResponse.calls \in GateOrders(lastResponse.route)
    /\ lastResponse.rateLimit = "rejected" =>
         /\ lastResponse.status = 429
         /\ lastResponse.calls = <<"checkRateLimit">>
    /\ (lastResponse.rateLimit = "allowed" /\ lastResponse.verification = "failure") =>
         /\ lastResponse.status = 403
         /\ lastResponse.calls = <<"checkRateLimit", "verifyTurnstileToken">>
    /\ Reached("completion", lastResponse.calls) =>
         /\ lastResponse.rateLimit = "allowed"
         /\ lastResponse.verification = "success"

\* The limiter has rejected a POST that carried an issued token: it was
\* answered 429 before the gate was asked.
C17_Witness ==
  /\ FunctionPost
  /\ lastResponse.token = IssuedToken
  /\ lastResponse.status = 429
  /\ Len(log[SteadyIP]) > N

\* C18: every route that calls the completion API, the Express routes of
\* server.js included, is gated by the rate limiter and the verification
\* check: no completion call is made for a request that the limiter did not
\* admit and the gate did not accept.
C18_AllRoutesGated ==
  Reached("completion", lastResponse.calls) =>
    /\ lastResponse.rateLimit = "allowed"
    /\ lastResponse.verification = "success"

\* The gate was asked for the last request.
GateAsked == FunctionPost /\ lastResponse.verification # "none"

\* C19: verifyTurnstileToken returns failure, and the handler answers 403,
\* whenever the token is missing or the verification service reports
\* failure; except that with the secret 'SKIP_FOR_LOCAL_DEV' it returns
\* success for every token, a missing one included, and does not call the
\* service.
C19_GateDecision ==
  /\ \A token \in Tokens : \A reply \in ServiceReplies(token) :
       LET v == verifyTurnstileToken(token, turnstileSecret, reply) IN
       IF turnstileSecret = SkipForLocalDev
       THEN v.success /\ ~v.fetched /\ ~v.threw
       ELSE (token = NoHeaderToken \/ reply = "failure") => (~v.success /\ ~v.threw)
  /\ GateAsked =>
       IF turnstileSecret = SkipForLocalDev
       THEN /\ lastResponse.verification = "success"
            /\ ~lastResponse.fetched
            /\ lastResponse.status # 403
       ELSE (lastResponse.token = NoHeaderToken \/ lastResponse.reply = "failure") =>
              /\ lastResponse.verification = "failure"
              /\ lastResponse.status = 403

\* Under the sentinel secret a POST without a token went through to the
\* completion API.
C19_Witness ==
  /\ GateAsked
  /\ turnstileSecret = SkipForLocalDev
  /\ lastResponse.token = NoHeaderToken
  /\ lastResponse.status = 200

\* C20: verification fails closed.  When the call of the service throws, its
\* response cannot be parsed, or the secret is not configured,
\* verifyTurnstileToken returns success = false and never throws; the rate
\* limiter does the opposite and returns allowed = true on its own errors.
C20_FailClosed ==
  /\ \A token \in Tokens : \A reply \in ServiceReplies(token) :
       LET v == verifyTurnstileToken(token, turnstileSecret, reply) IN
       /\ ~v.threw
       /\ (v.fetched /\ reply \in {"throws", "unparsable"}) => ~v.success
       /\ turnstileSecret = NoSecret => (~v.success /\ ~v.fetched)
  /\ GateAsked =>
       /\ lastResponse.verification # "threw"
       /\ ( \/ lastResponse.reply \in {"throws", "unparsable"}
            \/ turnstileSecret = NoSecret ) =>
            /\ lastResponse.verification = "failure"
            /\ lastResponse.status = 403
  /\ \A ops \in {<<"get">>, <<"get", "put">>} :
       LET r == CatchBlock(Thrown(ops)) IN ~r.threw /\ r.decision.allowed

\* The service call threw for a POST with an issued token under a real
\* secret: the handler answered 403.
C20_Witness ==
  /\ GateAsked
  /\ turnstileSecret = RealSecret
  /\ lastResponse.token = IssuedToken
  /\ lastResponse.reply = "throws"
  /\ lastResponse.status = 403

(***************************************************************************)
(* Properties of overlapping checks.                                       *)
(***************************************************************************)
\* The most checks in flight at one moment: the slow ones and one more.
InFlightMax == MaxIrregular + 1

\* The admitted checks of the steady client stamped in (t - W, t]: those
\* that ran undisturbed and the slow ones.
AdmittedBy(t) ==
  Cardinality(AdmittedInWindow(SteadyIP, Len(log[SteadyIP]), t))
  + Cardinality({i \in 1..Len(slowDone) :
                   /\ slowDone[i].decision.allowed
                   /\ slowDone[i].at > t - W
                   /\ slowDone[i].at <= t})

\* C21: when the checks of one identity overlap, each check's store read and
\* store write being separate atomic steps and at most k checks being in
\* flight at any moment, the admitted checks stamped in any trailing window
\* of W seconds are at most N + (k - 1).
C21_RaceBound == AdmittedBy(now) <= N + (InFlightMax - 1)

(***************************************************************************)
(* Properties of the stored record.                                        *)
(***************************************************************************)
StoredItems(key) == kv[key].json.items
\* The time of the put that stored the value under key.
WrittenAt(key) == kv[key].expiresAt - ExpirationTtl

C23_Sorted ==
  \A key \in DOMAIN kv :
    \A i, j \in 1..Len(StoredItems(key)) :
      i <= j => StoredItems(key)[i] <= StoredItems(key)[j]

(***************************************************************************)
(* More properties of the page's lock.                                     *)
(***************************************************************************)
\* The callers whose getTurnstileToken resolved.
Resolved == {i \in CallerIds : callers[i].sent}

\* C24: getTurnstileToken resolves only with a token that the widget
\* callback delivered after that acquisition began (a token cached before
\* it is cleared at its start and never returned), and at the moment it
\* resolves the returned requestId is the current holder.
C24_ResolveStep ==
  \A i \in CallerIds :
    (callers[i].pc = "polling" /\ callers'[i].pc = "fetching") =>
      /\ callers'[i].requestId = currentRequestId
      /\ callers'[i].requestId = callers[i].id
      /\ callers'[i].token = currentTurnstileToken
      /\ callers'[i].token # NoToken

C24_FreshToken ==
  \A i \in Resolved :
    /\ callers[i].token > callers[i].tokensBefore
    /\ callers[i].token <= tokensIssued

C24_ResolvesFresh == [][C24_ResolveStep]_vars /\ []C24_FreshToken

\* A token was cached before the first click; the caller resolved with the
\* token delivered after it took the lock.
C24_Witness ==
  /\ Len(callers) >= 1
  /\ callers[1].sent
  /\ callers[1].tokensBefore = 1
  /\ callers[1].token = 2

\* C25: at every callback-turn boundary the action buttons are disabled
\* exactly when the lock is held: taking the lock disables them in the same
\* turn, and every release (completeRequest by the owner, the timeout path)
\* enables them again in the same turn.
C25_ButtonsStep ==
  /\ (currentRequestId = NoRequest /\ currentRequestId' # NoRequest)
       => ~buttonsEnabled'
  /\ (currentRequestId # NoRequest /\ currentRequestId' = NoRequest)
       => buttonsEnabled'

C25_ButtonsIffFree == buttonsEnabled <=> currentRequestId = NoRequest

C25_ButtonsFollowLock == [][C25_ButtonsStep]_vars /\ []C25_ButtonsIffFree

\* The lock was taken, released by its owner, released by a timeout, and is
\* held again with the buttons disabled.
C25_Witness ==
  /\ Len(callers) >= 3
  /\ callers[1].pc = "done" /\ callers[1].sent
  /\ callers[2].pc = "done" /\ callers[2].error = TimeoutError
  /\ callers[3].pc = "polling"
  /\ currentRequestId = callers[3].id
  /\ ~buttonsEnabled

(***************************************************************************)
(* More properties of the limiter.                                         *)
(***************************************************************************)
\* C26: every value the limiter writes to the store holds at most N
\* timestamps, in every reachable state and under every interleaving of
\* concurrent checks of one identity.
C26_StoredAtMostMax ==
  \A key \in DOMAIN kv :
    kv[key].json.kind = "array" => Len(kv[key].json.items) <= RATE_LIMIT_MAX_REQUESTS

\* A check that read the store before later checks wrote it has written a
\* full sequence.
C26_Witness ==
  /\ Len(slowDone) >= 1
  /\ kvKey(SteadyIP) \in DOMAIN kv
  /\ kv[kvKey(SteadyIP)].json.kind = "array"
  /\ Len(kv[kvKey(SteadyIP)].json.items) = RATE_LIMIT_MAX_REQUESTS
  /\ \E k \in 1..Len(kv[kvKey(SteadyIP)].json.items) :
       /\ kv[kvKey(SteadyIP)].json.items[k] = slowDone[1].at
       /\ k = RATE_LIMIT_MAX_REQUESTS

\* What the check of ip that is about to run finds after pruning.
Surviving(ip) ==
  FilterWindow(ExistingTimestamps(KvGet(kv, kvKey(ip), now)), now - W)

\* C27: with a clock that never goes back, every rejection that
\* checkRateLimit returns has 1 <= retryAfter <= W and every normal admission
\* has 0 <= remaining <= N - 1; max(1, ...) never changes the value computed,
\* every surviving timestamp being later than now - W.
C27_Step ==
  \A ip \in Identities :
    Len(log'[ip]) = Len(log[ip]) + 1 =>
      LET d == log'[ip][Len(log'[ip])].decision
          timestamps == Surviving(ip)
      IN  /\ \A i \in 1..Len(timestamps.items) :
               timestamps.items[i] > now - W /\ timestamps.items[i] <= now
          /\ IsReject(d) =>
               /\ d.retryAfter = timestamps.items[1] + W - now
               /\ d.retryAfter >= 1
               /\ d.retryAfter <= W
          /\ IsNormalAdmit(d, now) =>
               /\ d.remaining >= 0
               /\ d.remaining <= N - 1

C28_Step ==
  /\ Len(log'[SteadyIP]) = Len(log[SteadyIP]) + 1 =>
       /\ lastResponse'.status \in {403, 400} =>
            /\ lastResponse'.rateLimit = "allowed"
            /\ Head(lastResponse'.calls) = "checkRateLimit"
            /\ LET stored == KvGet(kv', kvKey(SteadyIP), now)
               IN  /\ stored.kind = "array"
                   /\ stored.items[Len(stored.items)] = now
       /\ ( /\ onlyGateFailures
            /\ Cardinality(AdmittedInWindow(SteadyIP, Len(log[SteadyIP]), now)) >= N )
            => /\ lastResponse'.status = 429
               /\ lastResponse'.calls = <<"checkRateLimit">>
  /\ lastResponse'.method # "POST" => kv' = kv /\ log' = log

C28_SlotBeforeVerification == [][C28_Step]_vars

\* N POSTs were answered 403 or 400 and the next, with a valid token that the
\* service would accept, is answered 429.
C28_Witness ==
  /\ onlyGateFailures
  /\ Len(log[SteadyIP]) = N + 1
  /\ \A j \in 1..N : Entry(SteadyIP, j).decision.allowed
  /\ FunctionPost
  /\ lastResponse.token = IssuedToken
  /\ lastResponse.status = 429

(***************************************************************************)
(* The store's TTL.                                                        *)
(***************************************************************************)
\* What a store that never deletes would return for key.
GetWithoutExpiry(store, key) ==
  IF key \in DOMAIN store THEN store[key].json ELSE Null

\* The entries the store has deleted by now.
Expired == {key \in DOMAIN kv : now >= kv[key].expiresAt}

\* C29: every write of the limiter uses TTL = W + 10 = 70 seconds, and the
\* expiry never removes a timestamp that is still inside the window: for
\* sequential checks and a clock that never goes back, each check decides
\* and stores with a store that deletes entries at their TTL exactly what it
\* would with a store that never deletes.
C29_Step ==
  \A ip \in Identities :
    Len(log'[ip]) = Len(log[ip]) + 1 =>
      LET key == kvKey(ip)
          expiring == CatchBlock(TryBlock(KvGet(kv, key, now), now, FALSE, FALSE))
          keeping == CatchBlock(TryBlock(GetWithoutExpiry(kv, key), now, FALSE, FALSE))
          entry == log'[ip][Len(log'[ip])]
      IN  /\ entry.decision = expiring.decision
          /\ expiring.decision = keeping.decision
          /\ expiring.put = keeping.put
          /\ entry.decision.allowed =>
               /\ kv'[key].json = keeping.put
               /\ kv'[key].expiresAt = now + W + 10

C29_ExpiredOutOfWindow ==
  \A key \in Expired :
    \A i \in 1..Len(kv[key].json.items) : kv[key].json.items[i] <= now - W

C29_ExpiryUnseen == [][C29_Step]_vars /\ []C29_ExpiredOutOfWindow

\* A check found its entry deleted by the TTL and was admitted with
\* remaining = N - 1, after an earlier check was rejected.
C29_Witness ==
  \E j \in CallsOf(SteadyIP) :
    /\ j > N
    /\ ~Entry(SteadyIP, j - 1).decision.allowed
    /\ Entry(SteadyIP, j).read = "null"
    /\ Entry(SteadyIP, j).decision.allowed
    /\ Entry(SteadyIP, j).decision.remaining = N - 1

====
